---- MODULE Spec2Model ----
(***************************************************************************)
(* Model of mplexporter/renderers/base.py: the abstract Renderer.          *)
(*                                                                         *)
(* The renderer instance owns the scope state (_current_fig,               *)
(* _fig_properties, _current_ax, _ax_properties).  The traversal driver    *)
(* is the environment: it enters and leaves draw_figure / draw_axes        *)
(* context managers (a LIFO stack of with-blocks), calls the drawing       *)
(* operations inside or outside of them, and may catch an exception at     *)
(* any nesting level.                                                      *)
(*                                                                         *)
(* The source uses itertools.izip / itertools.imap, which exist only in    *)
(* Python 2; the model follows the Python 2 semantics of those iterators.  *)
(***************************************************************************)
EXTENDS Integers, Sequences, FiniteSets, TLC

VARIABLES
    overridden,       \* does the backend subclass override draw_path?
    _current_fig,      \* self._current_fig   (Unset: attribute not yet created)
    _fig_properties,   \* self._fig_properties
    _current_ax,       \* self._current_ax    (Unset: attribute not yet created)
    _ax_properties,    \* self._ax_properties
    stack,            \* the suspended draw_figure / draw_axes generators (the
                      \* driver's open with-blocks), innermost last
    hooks,            \* log of open_/close_ hook invocations
    warned,           \* number of warnings.warn calls
    entered,          \* number of scopes entered so far (also the scope ids)
    op,               \* the most recent operation called by the driver, with its arguments
    calls,            \* the draw_path invocations made by that operation, in order
    result,           \* how that operation ended: "ok" or the exception raised
    exc               \* an exception is propagating to the driver

vars == <<overridden, _current_fig, _fig_properties, _current_ax, _ax_properties,
          stack, hooks, warned, entered, op, calls, result, exc>>

scopeState == <<_current_fig, _fig_properties, _current_ax, _ax_properties>>

----------------------------------------------------------------------------
(* Bounds *)

MaxScopes == 3       \* scopes entered in one behaviour of Spec
MaxLen == 3          \* longest paths / offsets / data list
MaxStyleLen == 2     \* longest path_transforms / edgecolor / linewidth / facecolor list

----------------------------------------------------------------------------
(* Values *)

NoneRef == 0         \* Python None, the "empty" sentinel
Unset == -1          \* the attribute does not exist on the instance (no __init__)

FigObjs == {1, 2}    \* figure objects handed in by the driver
AxObjs == {1, 2}     \* axes objects handed in by the driver

EmptyProps == {}     \* the empty mapping {}
UnsetProps == {<<"AttributeError", "AttributeError">>}   \* attribute not yet created
PropsPool == {{<<"width", "8">>}, {<<"width", "6">>, <<"dpi", "72">>}}

NoOp == [name |-> "none"]
NoOffset == <<>>     \* offset=None

Max(a, b) == IF a >= b THEN a ELSE b

----------------------------------------------------------------------------
(* The axes objects: what the matplotlib calls of the queries return *)

get_navigate(ax) == ax = 1
xaxis_gridOnMajor(ax) == ax = 1
yaxis_gridOnMajor(ax) == ax = 2
yaxis_get_gridlines(ax) == TRUE     \* a non-empty list of gridlines

Truthy(ref) == ref # NoneRef

PyBool(b) == IF b THEN "True" ELSE "False"

ax_zoomable(ax) == PyBool(Truthy(ax) /\ get_navigate(ax))

ax_has_xgrid(ax) == PyBool(Truthy(ax) /\ xaxis_gridOnMajor(ax) /\ yaxis_get_gridlines(ax))

ax_has_ygrid(ax) == PyBool(Truthy(ax) /\ yaxis_gridOnMajor(ax) /\ yaxis_get_gridlines(ax))

\* self._current_ax: AttributeError while the attribute was never assigned
current_ax_zoomable ==
    IF _current_ax = Unset THEN "AttributeError" ELSE ax_zoomable(_current_ax)

current_ax_has_xgrid ==
    IF _current_ax = Unset THEN "AttributeError" ELSE ax_has_xgrid(_current_ax)

current_ax_has_ygrid ==
    IF _current_ax = Unset THEN "AttributeError" ELSE ax_has_ygrid(_current_ax)

QueryNames == {"current_ax_zoomable", "current_ax_has_xgrid", "current_ax_has_ygrid"}

QueryValue(q) ==
    CASE q = "current_ax_zoomable" -> current_ax_zoomable
      [] q = "current_ax_has_xgrid" -> current_ax_has_xgrid
      [] q = "current_ax_has_ygrid" -> current_ax_has_ygrid

----------------------------------------------------------------------------
(* Hooks: no-ops in the base class; the log records that they were invoked *)

open_figure(fig, sid) == [hook |-> "open_figure", obj |-> fig, sid |-> sid]
close_figure(fig, sid) == [hook |-> "close_figure", obj |-> fig, sid |-> sid]
open_axes(ax, sid) == [hook |-> "open_axes", obj |-> ax, sid |-> sid]
close_axes(ax, sid) == [hook |-> "close_axes", obj |-> ax, sid |-> sid]

Top == stack[Len(stack)]
Pop == SubSeq(stack, 1, Len(stack) - 1)

\* hasattr(self, attr) and self.attr is not None
AlreadyActive(ref) == ref # Unset /\ ref # NoneRef

----------------------------------------------------------------------------
(* Scope tracker *)

\* draw_figure with the assignments made only when no figure is active
draw_figure_enter_keep(fig, properties, limit) ==
    /\ ~exc
    /\ entered < limit
    /\ warned' = IF AlreadyActive(_current_fig) THEN warned + 1 ELSE warned
    /\ _current_fig' = IF AlreadyActive(_current_fig) THEN _current_fig ELSE fig
    /\ _fig_properties' = IF AlreadyActive(_current_fig) THEN _fig_properties ELSE properties
    /\ hooks' = Append(hooks, open_figure(fig, entered + 1))
    /\ stack' = Append(stack, [kind |-> "figure", obj |-> fig,
                               properties |-> properties, sid |-> entered + 1])
    /\ entered' = entered + 1
    /\ op' = NoOp /\ calls' = <<>> /\ result' = "ok"
    /\ UNCHANGED <<overridden, _current_ax, _ax_properties, exc>>

\* draw_figure up to its yield
draw_figure_enter(fig, properties, limit) ==
    /\ ~exc
    /\ entered < limit
    /\ warned' = IF AlreadyActive(_current_fig) THEN warned + 1 ELSE warned
    /\ _current_fig' = fig
    /\ _fig_properties' = properties
    /\ hooks' = Append(hooks, open_figure(fig, entered + 1))
    /\ stack' = Append(stack, [kind |-> "figure", obj |-> fig,
                               properties |-> properties, sid |-> entered + 1])
    /\ entered' = entered + 1
    /\ op' = NoOp /\ calls' = <<>> /\ result' = "ok"
    /\ UNCHANGED <<overridden, _current_ax, _ax_properties, exc>>

\* draw_figure after its yield: the with-block body completed normally
draw_figure_exit ==
    /\ ~exc
    /\ stack # <<>>
    /\ Top.kind = "figure"
    /\ hooks' = Append(hooks, close_figure(Top.obj, Top.sid))
    /\ _current_fig' = NoneRef
    /\ _fig_properties' = EmptyProps
    /\ stack' = Pop
    /\ op' = NoOp /\ calls' = <<>> /\ result' = "ok"
    /\ UNCHANGED <<overridden, _current_ax, _ax_properties, warned, entered, exc>>

\* draw_axes with the assignments made only when no axes is active
draw_axes_enter_keep(ax, properties, limit) ==
    /\ ~exc
    /\ entered < limit
    /\ warned' = IF AlreadyActive(_current_ax) THEN warned + 1 ELSE warned
    /\ _current_ax' = IF AlreadyActive(_current_ax) THEN _current_ax ELSE ax
    /\ _ax_properties' = IF AlreadyActive(_current_ax) THEN _ax_properties ELSE properties
    /\ hooks' = Append(hooks, open_axes(ax, entered + 1))
    /\ stack' = Append(stack, [kind |-> "axes", obj |-> ax,
                               properties |-> properties, sid |-> entered + 1])
    /\ entered' = entered + 1
    /\ op' = NoOp /\ calls' = <<>> /\ result' = "ok"
    /\ UNCHANGED <<overridden, _current_fig, _fig_properties, exc>>

\* draw_axes up to its yield
draw_axes_enter(ax, properties, limit) ==
    /\ ~exc
    /\ entered < limit
    /\ warned' = IF AlreadyActive(_current_ax) THEN warned + 1 ELSE warned
    /\ _current_ax' = ax
    /\ _ax_properties' = properties
    /\ hooks' = Append(hooks, open_axes(ax, entered + 1))
    /\ stack' = Append(stack, [kind |-> "axes", obj |-> ax,
                               properties |-> properties, sid |-> entered + 1])
    /\ entered' = entered + 1
    /\ op' = NoOp /\ calls' = <<>> /\ result' = "ok"
    /\ UNCHANGED <<overridden, _current_fig, _fig_properties, exc>>

\* draw_axes after its yield: the with-block body completed normally
draw_axes_exit ==
    /\ ~exc
    /\ stack # <<>>
    /\ Top.kind = "axes"
    /\ hooks' = Append(hooks, close_axes(Top.obj, Top.sid))
    /\ _current_ax' = NoneRef
    /\ _ax_properties' = EmptyProps
    /\ stack' = Pop
    /\ op' = NoOp /\ calls' = <<>> /\ result' = "ok"
    /\ UNCHANGED <<overridden, _current_fig, _fig_properties, warned, entered, exc>>

\* The body of the innermost with-block raised: contextmanager throws the
\* exception into the generator at its yield; the generator has no try/finally,
\* so nothing after the yield runs and the exception leaves the with-block.
Unwind ==
    /\ exc
    /\ stack # <<>>
    /\ stack' = Pop
    /\ UNCHANGED <<overridden, scopeState, hooks, warned, entered, op, calls, result, exc>>

\* The driver catches the exception (try/except at the current nesting level).
Catch ==
    /\ exc
    /\ exc' = FALSE
    /\ UNCHANGED <<overridden, scopeState, stack, hooks, warned, entered, op, calls, result>>

\* The driver reads one of the three properties.
Query(q) ==
    /\ ~exc
    /\ op' = [name |-> q]
    /\ calls' = <<>>
    /\ result' = QueryValue(q)
    /\ exc' = (QueryValue(q) = "AttributeError")
    /\ UNCHANGED <<overridden, scopeState, stack, hooks, warned, entered>>

----------------------------------------------------------------------------
(* Primitive contract *)

\* draw_path of the base class raises; a backend that overrides it returns.
draw_path(ovr) == IF ovr THEN "ok" ELSE "NotImplementedError"

PathCall(data, coordinates, pathcodes, style, offset, offset_coordinates) ==
    [data |-> data, coordinates |-> coordinates, pathcodes |-> pathcodes,
     style |-> style, offset |-> offset, offset_coordinates |-> offset_coordinates]

\* A loop that invokes draw_path once per element of todo, in order, and is
\* left by the first invocation that raises.
RECURSIVE RunCalls(_, _, _)
RunCalls(todo, done, ovr) ==
    IF todo = <<>> THEN [calls |-> done, result |-> "ok"]
    ELSE IF draw_path(ovr) # "ok"
         THEN [calls |-> Append(done, Head(todo)), result |-> draw_path(ovr)]
         ELSE RunCalls(Tail(todo), Append(done, Head(todo)), ovr)

Raise(e) == [calls |-> <<>>, result |-> e]

\* Python dict operations on a mapping with string keys
DictPop(d, k) == [x \in DOMAIN d \ {k} |-> d[x]]
DictSet(d, k, v) == [x \in DOMAIN d \cup {k} |-> IF x = k THEN v ELSE d[x]]

----------------------------------------------------------------------------
(* Inputs handed in by the driver: lists whose elements are pairwise distinct *)

VertexAt(i) == <<i, 2 * i>>
DataOf(n) == [i \in 1..n |-> VertexAt(i)]

PathAt(i) ==
    [vertices |-> <<<<i, 0>>, <<i, i>>, <<0, i>>>>,
     pathcodes |-> IF i % 2 = 1 THEN <<"M", "L", "L">> ELSE <<"M", "L", "L", "Z">>]

\* an affine matrix [[a, b, c], [d, e, f], [0, 0, 1]] as <<a, b, c, d, e, f>>
TransformAt(i) == <<i + 1, 0, i, 0, 1, 0 - i>>

OffsetAt(i) == <<10 * i, i>>

EdgeColorAt(i) == CASE i % 3 = 1 -> "red" [] i % 3 = 2 -> "green" [] OTHER -> "blue"
FaceColorAt(i) == CASE i % 3 = 1 -> "white" [] i % 3 = 2 -> "black" [] OTHER -> "none"
LineWidthAt(i) == 2 * i

Paths(n) == [i \in 1..n |-> PathAt(i)]
Transforms(n) == [i \in 1..n |-> TransformAt(i)]
Offsets(n) == [i \in 1..n |-> OffsetAt(i)]
EdgeColors(n) == [i \in 1..n |-> EdgeColorAt(i)]
FaceColors(n) == [i \in 1..n |-> FaceColorAt(i)]
LineWidths(n) == [i \in 1..n |-> LineWidthAt(i)]

LineStyles ==
    { [color |-> "#ff0000", linewidth |-> 2],
      [color |-> "#00ff00", linewidth |-> 1, alpha |-> 1, dasharray |-> "10,0"],
      [color |-> "#0000ff", linewidth |-> 3, facecolor |-> "#ffffff"],
      [color |-> "#0000ff", linewidth |-> 3, edgecolor |-> "#000000", edgewidth |-> 9],
      [color |-> "#ff0000"] }

MarkerStyles ==
    { [markerpath |-> PathAt(1), alpha |-> 1, edgecolor |-> "#000000",
       facecolor |-> "#ff0000", edgewidth |-> 2],
      [markerpath |-> PathAt(2), alpha |-> 0, edgecolor |-> "#0000ff",
       facecolor |-> "none", edgewidth |-> 1, zorder |-> 4],
      [markerpath |-> PathAt(1), edgecolor |-> "#000000",
       facecolor |-> "#ff0000", edgewidth |-> 2] }

Coordinates == {"data", "figure"}

----------------------------------------------------------------------------
(* Line decomposition *)

\* ['M'] + (data.shape[0] - 1) * ['L']   (a list times a negative number is [])
line_pathcodes(n) == <<"M">> \o [i \in 1..(n - 1) |-> "L"]

\* dict(facecolor='none', **style): a keyword given twice is a TypeError
dict_facecolor_none(style) ==
    [x \in DOMAIN style \cup {"facecolor"} |-> IF x = "facecolor" THEN "none" ELSE style[x]]

line_pathstyle(style) ==
    LET s0 == dict_facecolor_none(style)
        s1 == DictSet(DictPop(s0, "color"), "edgecolor", s0["color"])
    IN DictSet(DictPop(s1, "linewidth"), "edgewidth", s1["linewidth"])

draw_line_run(data, coordinates, style, ovr) ==
    IF "facecolor" \in DOMAIN style THEN Raise("TypeError")
    ELSE IF "color" \notin DOMAIN style \/ "linewidth" \notin DOMAIN style
         THEN Raise("KeyError")
         ELSE RunCalls(<<PathCall(data, coordinates, line_pathcodes(Len(data)),
                                  line_pathstyle(style), NoOffset, "data")>>,
                       <<>>, ovr)

----------------------------------------------------------------------------
(* Marker decomposition *)

MarkerKeys == {"alpha", "edgecolor", "facecolor", "edgewidth"}

marker_pathstyle(style) ==
    DictSet([key \in MarkerKeys |-> style[key]], "dasharray", "10,0")

\* the marker drawn in the data point's space and the offset in "points"
marker_call_swapped(style, vertex, coordinates) ==
    PathCall(style["markerpath"].vertices, coordinates, style["markerpath"].pathcodes,
             marker_pathstyle(style), vertex, "points")

marker_call(style, vertex, coordinates) ==
    PathCall(style["markerpath"].vertices, "points", style["markerpath"].pathcodes,
             marker_pathstyle(style), vertex, coordinates)

draw_markers_run(data, coordinates, style, ovr) ==
    IF "markerpath" \notin DOMAIN style \/ ~(MarkerKeys \subseteq DOMAIN style)
    THEN Raise("KeyError")
    ELSE RunCalls([i \in 1..Len(data) |-> marker_call(style, data[i], coordinates)],
                  <<>>, ovr)

----------------------------------------------------------------------------
(* Cycling broadcaster and path-collection decomposition *)

\* utils.color_to_hex: matplotlib colour to '#RRGGBB', fully transparent to 'none'
color_to_hex(c) ==
    CASE c = "red" -> "#FF0000"
      [] c = "green" -> "#008000"
      [] c = "blue" -> "#0000FF"
      [] c = "white" -> "#FFFFFF"
      [] c = "black" -> "#000000"
      [] OTHER -> "none"

\* transforms.Affine2D(m).transform(vertices)
affine_transform(m, vertices) ==
    [i \in 1..Len(vertices) |->
        <<m[1] * vertices[i][1] + m[2] * vertices[i][2] + m[3],
          m[4] * vertices[i][1] + m[5] * vertices[i][2] + m[6]>>]

\* an iterator that repeats its last element instead of starting over
cycle_advance_clamp(len, p) == IF p = len THEN len ELSE p + 1

\* itertools.cycle: the position after handing out the element at position p
cycle_advance(len, p) == IF p = len THEN 1 ELSE p + 1

\* islice(izip(*imap(cycle, elements)), n): izip asks every cycle for its next
\* element and ends as soon as one of them has none (a cycle over an empty list)
RECURSIVE islice_izip_cycle(_, _, _)
islice_izip_cycle(elements, pos, n) ==
    IF n = 0 \/ \E j \in DOMAIN elements : Len(elements[j]) = 0
    THEN <<>>
    ELSE <<[j \in DOMAIN elements |-> elements[j][pos[j]]]>>
         \o islice_izip_cycle(elements,
                              [j \in DOMAIN elements |->
                                  cycle_advance(Len(elements[j]), pos[j])],
                              n - 1)

BroadcastLength(paths, offsets) == Max(Len(paths), Len(offsets))

\* "if not path_transforms: path_transforms = [np.eye(3)]": the module never
\* imports numpy, so evaluating np raises NameError
_iter_path_collection(paths, path_transforms, offsets, styles) ==
    IF Len(path_transforms) = 0
    THEN [error |-> "NameError", tuples |-> <<>>]
    ELSE [error |-> "ok",
          tuples |-> islice_izip_cycle(<<paths, path_transforms, offsets,
                                         styles.edgecolor, styles.linewidth,
                                         styles.facecolor>>,
                                       <<1, 1, 1, 1, 1, 1>>,
                                       BroadcastLength(paths, offsets))]

offset_order_unsupported(offset_order) == offset_order = "before"

\* one iteration of the loop body
collection_call(tup, path_coordinates, offset_coordinates, alpha) ==
    PathCall(affine_transform(tup[2], tup[1].vertices),
             IF path_coordinates = "figure" THEN "points" ELSE path_coordinates,
             tup[1].pathcodes,
             [edgecolor |-> color_to_hex(tup[4]),
              facecolor |-> color_to_hex(tup[6]),
              edgewidth |-> tup[5],
              dasharray |-> "10,0",
              alpha |-> alpha],
             tup[3], offset_coordinates)

\* the offset_order test made after the loop instead of before it
draw_path_collection_run_late(paths, path_coordinates, path_transforms, offsets, offset_coordinates, offset_order, styles, ovr) ==
    LET it == _iter_path_collection(paths, path_transforms, offsets, styles)
        done == IF it.error # "ok" THEN Raise(it.error)
                ELSE RunCalls([i \in 1..Len(it.tuples) |->
                                  collection_call(it.tuples[i], path_coordinates,
                                                  offset_coordinates, styles.alpha)],
                              <<>>, ovr)
    IN IF done.result = "ok" /\ offset_order_unsupported(offset_order)
       THEN [calls |-> done.calls, result |-> "NotImplementedError"]
       ELSE done

draw_path_collection_run(paths, path_coordinates, path_transforms, offsets, offset_coordinates, offset_order, styles, ovr) ==
    IF offset_order_unsupported(offset_order) THEN Raise("NotImplementedError")
    ELSE LET it == _iter_path_collection(paths, path_transforms, offsets, styles)
         IN IF it.error # "ok" THEN Raise(it.error)
            ELSE RunCalls([i \in 1..Len(it.tuples) |->
                              collection_call(it.tuples[i], path_coordinates,
                                              offset_coordinates, styles.alpha)],
                          <<>>, ovr)

----------------------------------------------------------------------------
(* Drawing operations called by the driver *)

Outcome(o, r) ==
    /\ ~exc
    /\ op' = o
    /\ calls' = r.calls
    /\ result' = r.result
    /\ exc' = (r.result # "ok")
    /\ UNCHANGED <<overridden, scopeState, stack, hooks, warned, entered>>

\* a direct call of the primitive
DrawPath ==
    LET call == PathCall(DataOf(2), "data", <<"M", "L">>,
                         [edgecolor |-> "#000000", facecolor |-> "none",
                          edgewidth |-> 1, dasharray |-> "10,0", alpha |-> 1],
                         NoOffset, "data")
    IN Outcome([name |-> "draw_path"], RunCalls(<<call>>, <<>>, overridden))

DrawLine(n, coordinates, style) ==
    Outcome([name |-> "draw_line", data |-> DataOf(n),
                coordinates |-> coordinates, style |-> style],
               draw_line_run(DataOf(n), coordinates, style, overridden))

DrawMarkers(n, coordinates, style) ==
    Outcome([name |-> "draw_markers", data |-> DataOf(n),
                coordinates |-> coordinates, style |-> style],
               draw_markers_run(DataOf(n), coordinates, style, overridden))

DrawPathCollection(np, nt, no, ne, nl, nf, path_coordinates, offset_order) ==
    LET offset_coordinates == IF path_coordinates = "data" THEN "figure" ELSE "data"
        styles == [edgecolor |-> EdgeColors(ne), linewidth |-> LineWidths(nl),
                   facecolor |-> FaceColors(nf), alpha |-> 1]
    IN Outcome([name |-> "draw_path_collection", paths |-> Paths(np),
                   path_coordinates |-> path_coordinates,
                   path_transforms |-> Transforms(nt), offsets |-> Offsets(no),
                   offset_coordinates |-> offset_coordinates,
                   offset_order |-> offset_order, styles |-> styles],
                  draw_path_collection_run(Paths(np), path_coordinates, Transforms(nt),
                                           Offsets(no), offset_coordinates,
                                           offset_order, styles, overridden))

\* The operation returned normally and the driver goes on to its next call.
Continue ==
    /\ ~exc
    /\ op # NoOp
    /\ op' = NoOp /\ calls' = <<>> /\ result' = "ok"
    /\ UNCHANGED <<overridden, scopeState, stack, hooks, warned, entered, exc>>

----------------------------------------------------------------------------
(* Specifications *)

Init ==
    /\ overridden \in BOOLEAN
    /\ _current_fig = Unset /\ _fig_properties = UnsetProps
    /\ _current_ax = Unset /\ _ax_properties = UnsetProps
    /\ stack = <<>> /\ hooks = <<>> /\ warned = 0 /\ entered = 0
    /\ op = NoOp /\ calls = <<>> /\ result = "ok" /\ exc = FALSE

\* the scope tracker under arbitrary nesting, errors in the bodies included
Next ==
    \/ \E fig \in FigObjs, properties \in PropsPool :
          draw_figure_enter(fig, properties, MaxScopes)
    \/ draw_figure_exit
    \/ \E ax \in AxObjs, properties \in PropsPool :
          draw_axes_enter(ax, properties, MaxScopes)
    \/ draw_axes_exit
    \/ \E q \in QueryNames : Query(q)
    \/ DrawPath
    \/ Unwind
    \/ Catch

Spec == Init /\ [][Next]_vars

\* The driver's traversal of one figure with one axes:
\*   with draw_figure(fig, props): with draw_axes(ax, props): <drawing calls>
TraversalFigure == stack = <<>> /\ entered = 0
TraversalAxes == Len(stack) = 1 /\ entered = 1
PropsOf(obj) == IF obj = 1 THEN {<<"width", "8">>} ELSE {<<"width", "6">>, <<"dpi", "72">>}

\* the driver is about to make a drawing call
Ready == ~exc /\ op = NoOp

\* the decomposition engine over its inputs, inside and outside of a scope
NextDraw ==
    \/ TraversalFigure /\ \E fig \in FigObjs :
          draw_figure_enter(fig, PropsOf(fig), MaxScopes)
    \/ draw_figure_exit
    \/ TraversalAxes /\ \E ax \in AxObjs :
          draw_axes_enter(ax, PropsOf(ax), MaxScopes)
    \/ draw_axes_exit
    \/ Ready /\ \E n \in 0..MaxLen, c \in Coordinates, style \in LineStyles :
          DrawLine(n, c, style)
    \/ Ready /\ \E n \in 0..MaxLen, c \in Coordinates, style \in MarkerStyles :
          DrawMarkers(n, c, style)
    \/ Ready /\ \E np \in 0..MaxLen, no \in 0..MaxLen,
          nt \in 0..MaxStyleLen, ne \in 0..MaxStyleLen,
          nl \in 0..MaxStyleLen, nf \in 0..MaxStyleLen,
          c \in Coordinates, order \in {"after", "before"} :
          DrawPathCollection(np, nt, no, ne, nl, nf, c, order)
    \/ Continue
    \/ Unwind
    \/ Catch

SpecDraw == Init /\ [][NextDraw]_vars

----------------------------------------------------------------------------
(* Properties *)

IsCollection == op.name = "draw_path_collection"
IsLine == op.name = "draw_line"
IsMarkers == op.name = "draw_markers"

\* the element a list contributes to broadcast tuple i (counted from 0)
ModIdx(list, i) == list[(i % Len(list)) + 1]

CollectionLists ==
    <<op.paths, op.path_transforms, op.offsets,
      op.styles.edgecolor, op.styles.linewidth, op.styles.facecolor>>

\* C1: with offset_order other than "before" and a draw_path that succeeds,
\* draw_path_collection invokes draw_path exactly max(len(paths), len(offsets))
\* times, whatever the lengths of the six lists are, a list of length 0 next
\* to a longer one included.  (Stated for a non-empty path_transforms: the
\* empty one is the subject of C9.)
C1_CallCountIsMax ==
    (IsCollection /\ op.offset_order # "before" /\ overridden
                  /\ Len(op.path_transforms) > 0)
        => Len(calls) = Max(Len(op.paths), Len(op.offsets))

\* the draw_path call that broadcast tuple i (counted from 0) must produce
ExpectedCollectionCall(i) ==
    PathCall(affine_transform(ModIdx(op.path_transforms, i), ModIdx(op.paths, i).vertices),
             IF op.path_coordinates = "figure" THEN "points" ELSE op.path_coordinates,
             ModIdx(op.paths, i).pathcodes,
             [edgecolor |-> color_to_hex(ModIdx(op.styles.edgecolor, i)),
              facecolor |-> color_to_hex(ModIdx(op.styles.facecolor, i)),
              edgewidth |-> ModIdx(op.styles.linewidth, i),
              dasharray |-> "10,0",
              alpha |-> op.styles.alpha],
             ModIdx(op.offsets, i), op.offset_coordinates)

AllListsNonEmpty == \A j \in 1..6 : Len(CollectionLists[j]) > 0

\* C2: with all six lists non-empty, the i-th draw_path call of
\* draw_path_collection (i = 0..N-1, in that order) is built from every list's
\* element at index i modulo that list's own length; N calls are made when
\* draw_path succeeds, and the loop is left by the first call when it raises.
C2_ModuloIndexing ==
    (IsCollection /\ op.offset_order # "before" /\ AllListsNonEmpty)
        => /\ Len(calls) = IF overridden THEN Max(Len(op.paths), Len(op.offsets)) ELSE 1
           /\ \A i \in 1..Len(calls) : calls[i] = ExpectedCollectionCall(i - 1)
           /\ result = draw_path(overridden)

\* a list of length 2 is cycled over N = 3 calls: 2 does not divide 3
C2_Witness ==
    /\ IsCollection /\ op.offset_order # "before" /\ AllListsNonEmpty
    /\ overridden /\ result = "ok"
    /\ Len(op.paths) = 3 /\ Len(op.offsets) = 1
    /\ Len(op.path_transforms) = 2 /\ Len(op.styles.edgecolor) = 2
    /\ Len(calls) = 3
    /\ calls[3].style.edgecolor = color_to_hex(op.styles.edgecolor[1])

\* C3: a draw_path_collection call with offset_order "before" raises
\* NotImplementedError whatever the other arguments are, makes no draw_path
\* call and leaves the scope state, the hooks and the warnings untouched.
C3_BeforeRejected ==
    [][(op = NoOp /\ op'.name = "draw_path_collection" /\ op'.offset_order = "before")
          => /\ result' = "NotImplementedError"
             /\ exc'
             /\ calls' = <<>>
             /\ UNCHANGED <<scopeState, stack, hooks, warned>>]_vars

\* rejected inside an axes scope, with every list empty
C3_Witness ==
    /\ IsCollection /\ op.offset_order = "before"
    /\ result = "NotImplementedError" /\ calls = <<>>
    /\ Len(op.paths) = 0 /\ Len(op.offsets) = 0 /\ Len(op.path_transforms) = 0
    /\ Len(op.styles.edgecolor) = 0
    /\ Len(stack) = 2 /\ AlreadyActive(_current_ax) /\ AlreadyActive(_current_fig)

\* how often a hook has run for a scope, counted after the step
HookCountNext(name, sid) ==
    Cardinality({i \in 1..Len(hooks') : hooks'[i].hook = name /\ hooks'[i].sid = sid})

\* C4: whenever control returns to the driver from a draw_figure (draw_axes)
\* scope, whether its body completed or was left by the NotImplementedError
\* of a draw_path that is not overridden, close_figure (close_axes) has run
\* exactly once for that scope and the active figure (axes) is None with an
\* empty properties mapping.
C4_CloseOnEveryExit ==
    [][(Len(stack') < Len(stack) /\ (exc => op.name = "draw_path"))
          => IF Top.kind = "figure"
             THEN /\ HookCountNext("close_figure", Top.sid) = 1
                  /\ _current_fig' = NoneRef
                  /\ _fig_properties' = EmptyProps
             ELSE /\ HookCountNext("close_axes", Top.sid) = 1
                  /\ _current_ax' = NoneRef
                  /\ _ax_properties' = EmptyProps]_vars

\* the scope entered by the step, and the attribute pair it is about
TopNext == stack'[Len(stack')]
Entering(kind) == Len(stack') = Len(stack) + 1 /\ TopNext.kind = kind
Completing(kind) == ~exc /\ Len(stack') < Len(stack) /\ Top.kind = kind

IsClose(h) == h.hook \in {"close_figure", "close_axes"}
OpenOf(h) == IF h.hook = "close_figure" THEN "open_figure" ELSE "open_axes"

\* every close hook in the log runs once, after its scope's open hook, and a
\* scope opened in between is closed, if at all, before the enclosing one is
HooksNested(log) ==
    \A k \in 1..Len(log) :
        IsClose(log[k])
            => /\ \A m \in 1..Len(log) :
                    (m # k /\ log[m].sid = log[k].sid)
                        => /\ m < k
                           /\ log[m].hook = OpenOf(log[k])
                           /\ log[m].obj = log[k].obj
                           /\ \A j \in (m + 1)..(k - 1), n \in (k + 1)..Len(log) :
                                 log[n].sid # log[j].sid
               /\ \E m \in 1..(k - 1) : log[m].sid = log[k].sid

\* C5: entering draw_figure (draw_axes) while a figure (axes) is already active
\* does not abort: one warning is issued, the new figure (axes) and its
\* properties become the active ones, open_figure (open_axes) runs and the
\* scope is entered; every scope whose body completes runs its close hook and
\* leaves the active figure (axes) None with empty properties, the inner pair
\* of hooks inside the outer pair.
C5_ReentryWarnsAndProceeds ==
    [][/\ (Entering("figure") /\ AlreadyActive(_current_fig))
            => /\ warned' = warned + 1
               /\ _current_fig' = TopNext.obj
               /\ _fig_properties' = TopNext.properties
               /\ hooks' = Append(hooks, open_figure(TopNext.obj, TopNext.sid))
               /\ ~exc'
       /\ (Entering("axes") /\ AlreadyActive(_current_ax))
            => /\ warned' = warned + 1
               /\ _current_ax' = TopNext.obj
               /\ _ax_properties' = TopNext.properties
               /\ hooks' = Append(hooks, open_axes(TopNext.obj, TopNext.sid))
               /\ ~exc'
       /\ Completing("figure")
            => /\ hooks' = Append(hooks, close_figure(Top.obj, Top.sid))
               /\ _current_fig' = NoneRef
               /\ _fig_properties' = EmptyProps
       /\ Completing("axes")
            => /\ hooks' = Append(hooks, close_axes(Top.obj, Top.sid))
               /\ _current_ax' = NoneRef
               /\ _ax_properties' = EmptyProps
       /\ HooksNested(hooks')]_vars

\* draw_figure entered twice, both bodies completed: open, open, close, close
C5_Witness ==
    /\ stack = <<>> /\ warned = 1 /\ Len(hooks) = 4
    /\ hooks[1].hook = "open_figure" /\ hooks[2].hook = "open_figure"
    /\ hooks[1].obj # hooks[2].obj
    /\ hooks[3] = close_figure(hooks[2].obj, hooks[2].sid)
    /\ hooks[4] = close_figure(hooks[1].obj, hooks[1].sid)
    /\ _current_fig = NoneRef /\ _fig_properties = EmptyProps

OpenScopes(kind) == {i \in 1..Len(stack) : stack[i].kind = kind}
Innermost(kind) == stack[CHOOSE i \in OpenScopes(kind) : \A j \in OpenScopes(kind) : j <= i]

\* C6: whenever no axes scope is active, on a fresh instance as well as after
\* the axes scopes have exited, the three current_ax_* queries return False and
\* none of them fails.
C6_QueriesFalseWithoutAxes ==
    OpenScopes("axes") = {}
        => /\ current_ax_zoomable = "False"
           /\ current_ax_has_xgrid = "False"
           /\ current_ax_has_ygrid = "False"

\* C7: for a polyline of N >= 1 points and any style with color and linewidth
\* (facecolor included or not), draw_line makes exactly one draw_path call
\* with the vertices and coordinates unchanged, pathcodes 'M' then N-1 times
\* 'L', facecolor "none", edgecolor the color, edgewidth the linewidth, and
\* neither color nor linewidth left in the style.
C7_LineIsOnePath ==
    (IsLine /\ Len(op.data) >= 1 /\ {"color", "linewidth"} \subseteq DOMAIN op.style)
        => /\ Len(calls) = 1
           /\ calls[1].data = op.data
           /\ calls[1].coordinates = op.coordinates
           /\ Len(calls[1].pathcodes) = Len(op.data)
           /\ \A i \in 1..Len(op.data) :
                 calls[1].pathcodes[i] = IF i = 1 THEN "M" ELSE "L"
           /\ calls[1].style.facecolor = "none"
           /\ calls[1].style.edgecolor = op.style.color
           /\ calls[1].style.edgewidth = op.style.linewidth
           /\ {"color", "linewidth"} \cap DOMAIN calls[1].style = {}

MarkerStyleComplete == ({"markerpath"} \cup MarkerKeys) \subseteq DOMAIN op.style

\* what draw_path call number i of draw_markers must be
MarkerCallAsSpecified(i) ==
    /\ calls[i].data = op.style.markerpath.vertices
    /\ calls[i].pathcodes = op.style.markerpath.pathcodes
    /\ calls[i].coordinates = "points"
    /\ calls[i].offset = op.data[i]
    /\ calls[i].offset_coordinates = op.coordinates
    /\ DOMAIN calls[i].style = MarkerKeys \cup {"dasharray"}
    /\ \A key \in MarkerKeys : calls[i].style[key] = op.style[key]
    /\ calls[i].style.dasharray = "10,0"

\* C8 as stated: draw_markers with N data points and a complete style invokes
\* draw_path exactly N times, in input order, each call as specified.
C8_MarkersNCalls ==
    (IsMarkers /\ MarkerStyleComplete)
        => /\ Len(calls) = Len(op.data)
           /\ \A i \in 1..Len(calls) : MarkerCallAsSpecified(i)

\* C8 amended: the N calls are made when draw_path returns normally; with the
\* base class's draw_path the first call raises NotImplementedError and ends
\* the loop.  Every call made is as specified.
C8_MarkersNCallsWhenDrawPathReturns ==
    (IsMarkers /\ MarkerStyleComplete)
        => /\ overridden => (Len(calls) = Len(op.data) /\ result = "ok")
           /\ (~overridden /\ Len(op.data) >= 1)
                 => (Len(calls) = 1 /\ result = "NotImplementedError")
           /\ \A i \in 1..Len(calls) : MarkerCallAsSpecified(i)

C8_Witness ==
    /\ IsMarkers /\ MarkerStyleComplete /\ overridden
    /\ Len(op.data) = 3 /\ Len(calls) = 3 /\ result = "ok"
    /\ op.coordinates = "data"
    /\ "zorder" \in DOMAIN op.style
    /\ calls[2].offset = op.data[2] /\ calls[2].offset # calls[3].offset

\* C9: with an empty path_transforms, offset_order "after" and the other lists
\* non-empty, an identity transform is substituted: the call does not fail,
\* max(len(paths), len(offsets)) draw_path calls are made and each receives
\* its path's vertices unchanged.
C9_EmptyTransformsIsIdentity ==
    (/\ IsCollection /\ op.offset_order = "after" /\ overridden
     /\ Len(op.path_transforms) = 0
     /\ \A j \in {1, 3, 4, 5, 6} : Len(CollectionLists[j]) > 0)
        => /\ result = "ok"
           /\ Len(calls) = Max(Len(op.paths), Len(op.offsets))
           /\ \A i \in 1..Len(calls) : calls[i].data = ModIdx(op.paths, i - 1).vertices

Active(kind) == IF kind = "figure" THEN _current_fig ELSE _current_ax

\* C10: while at least one figure (axes) scope is open, the active figure
\* (axes) is not None and is the one of the innermost open figure (axes) scope.
C10_ActiveIsInnermostOpen ==
    \A kind \in {"figure", "axes"} :
        OpenScopes(kind) # {}
            => /\ AlreadyActive(Active(kind))
               /\ Active(kind) = Innermost(kind).obj

\* the scopes of a kind entered so far, by their open hooks
Opened(kind) ==
    {i \in 1..Len(hooks) : hooks[i].hook = IF kind = "figure" THEN "open_figure"
                                                                ELSE "open_axes"}
LastOpened(kind) == hooks[CHOOSE i \in Opened(kind) : \A j \in Opened(kind) : j <= i]

\* C10 amended: while the most recently entered figure (axes) scope is still
\* open, the active figure (axes) is not None and is that scope's figure (axes).
C10_ActiveIsLatestWhileOpen ==
    \A kind \in {"figure", "axes"} :
        (Opened(kind) # {} /\ \E i \in OpenScopes(kind) : stack[i].sid = LastOpened(kind).sid)
            => /\ AlreadyActive(Active(kind))
               /\ Active(kind) = LastOpened(kind).obj

\* a figure scope re-entered inside another one, with an axes scope in between
C10_Witness ==
    /\ Len(stack) = 3
    /\ stack[1].kind = "figure" /\ stack[2].kind = "axes" /\ stack[3].kind = "figure"
    /\ stack[1].obj # stack[3].obj
    /\ _current_fig = stack[3].obj /\ _current_ax = stack[2].obj
    /\ warned = 1

====
